---------------------------- MODULE Spec2Model ----------------------------
(***************************************************************************)
(* Observation constraints and context folders of verifiers_interact.      *)
(*                                                                         *)
(* Text is a sequence of one-character strings; "\n" is the line           *)
(* separator.  A folder is a record (class, head_ratio, patterns), a       *)
(* constraint a record (class, max_lines, max_chars, folder).  head_ratio  *)
(* is <<numerator, denominator>>, the fraction whose nearest double the    *)
(* float is (0.7 is <<7, 10>>).                                            *)
(***************************************************************************)
EXTENDS Integers, Sequences, FiniteSets, TLC

VARIABLES folder, constraint, err, call, result, folded, fold_calls, raised,
          threads, heap, bundles, state, seen, tool_messages, metric, logged

vars == <<folder, constraint, err, call, result, folded, fold_calls, raised,
          threads, heap, bundles, state, seen, tool_messages, metric, logged>>

---------------------------------------------------------------------------
(* Bounds of the explored inputs *)

MaxLines == 4

MaxBudget == 3

MaxChars == 4

\* a line budget at which the product with the double 0.7 falls just below
\* a whole number
LongBudget == 90

---------------------------------------------------------------------------
(* Python built-ins used by the code *)

NL == "\n"

Max(a, b) == IF a >= b THEN a ELSE b

Min(a, b) == IF a <= b THEN a ELSE b

\* s[:n]
PyPrefix(s, n) ==
    IF n >= 0 THEN SubSeq(s, 1, Min(n, Len(s)))
    ELSE SubSeq(s, 1, Max(0, Len(s) + n))

\* s[k:]
PySuffix(s, k) ==
    IF k >= 0 THEN SubSeq(s, Min(k, Len(s)) + 1, Len(s))
    ELSE SubSeq(s, Max(0, Len(s) + k) + 1, Len(s))

\* index of the first "\n" of s, 0 when there is none
RECURSIVE FirstNL(_, _)
FirstNL(s, i) ==
    IF i > Len(s) THEN 0
    ELSE IF s[i] = NL THEN i
    ELSE FirstNL(s, i + 1)

\* s.split("\n"), computed on the two halves of s: the last piece of the
\* left half and the first piece of the right half are one piece of s
RECURSIVE Split(_)
Split(s) ==
    IF FirstNL(s, 1) = 0 THEN <<s>>
    ELSE IF Len(s) = 1 THEN <<<<>>, <<>>>>
    ELSE LET m == Len(s) \div 2
             a == Split(SubSeq(s, 1, m))
             b == Split(SubSeq(s, m + 1, Len(s)))
         IN SubSeq(a, 1, Len(a) - 1) \o <<a[Len(a)] \o b[1]>> \o SubSeq(b, 2, Len(b))

\* "\n".join(lines), computed on the two halves of lines
RECURSIVE Join(_)
Join(lines) ==
    IF Len(lines) = 0 THEN <<>>
    ELSE IF Len(lines) = 1 THEN lines[1]
    ELSE LET m == Len(lines) \div 2
         IN Join(SubSeq(lines, 1, m)) \o <<NL>> \o Join(SubSeq(lines, m + 1, Len(lines)))

\* s.count("\n")
CountNL(s) == Cardinality({i \in 1..Len(s) : s[i] = NL})

Digit(d) == CASE d = 0 -> "0" [] d = 1 -> "1" [] d = 2 -> "2" [] d = 3 -> "3"
              [] d = 4 -> "4" [] d = 5 -> "5" [] d = 6 -> "6" [] d = 7 -> "7"
              [] d = 8 -> "8" [] d = 9 -> "9"

RECURSIVE NatStr(_)
NatStr(n) == IF n < 10 THEN <<Digit(n)>> ELSE NatStr(n \div 10) \o <<Digit(n % 10)>>

\* str(n) of an int, as an f-string prints it
IntStr(n) == IF n < 0 THEN <<"-">> \o NatStr(-n) ELSE NatStr(n)

\* 2^k (1 for k <= 0)
RECURSIVE Pow2(_)
Pow2(k) == IF k <= 0 THEN 1 ELSE 2 * Pow2(k - 1)

\* 2^k mod d
RECURSIVE Pow2Mod(_, _)
Pow2Mod(k, d) == IF k = 0 THEN 1 % d ELSE (2 * Pow2Mod(k - 1, d)) % d

\* the binary exponent of n/d > 0: the e with 2^e <= n/d < 2^(e+1)
RECURSIVE FloatExp(_, _)
FloatExp(n, d) ==
    IF n >= 2 * d THEN FloatExp(n, 2 * d) + 1
    ELSE IF n < d THEN FloatExp(2 * n, d) - 1
    ELSE 0

\* The float n/d (n, d > 0) is the double nearest to the fraction: its
\* 53-bit significand is n * 2^E / d rounded to the nearest integer, with
\* E = 52 - FloatExp(n, d).  FloatErr is the signed rounding error c, in
\* units of 1 / (d * 2^E):  float(n/d) = n/d + c / (d * 2^E).
FloatErr(n, d) ==
    LET E   == 52 - FloatExp(n, d)
        rho == ((n % d) * Pow2Mod(E, d)) % d
    IN IF 2 * rho < d THEN -rho ELSE d - rho

\* int(b * x) for b > 0 and the float x = n/d > 0.  The exact product is
\* q + t/d + b*c / (d * 2^E) with q, t the quotient and remainder of b*n
\* by d.  It is rounded to a double and then truncated: the result is q,
\* except when the exact product lies just below the whole number q
\* (t = 0, c < 0) by more than half the spacing 2^(eq - 52) of the doubles
\* below q, where the rounded product stays below q and truncates to q - 1.
\* (A tie rounds to q, whose significand is even.)
IntTimesPos(b, n, d) ==
    LET q  == (b * n) \div d
        t  == (b * n) % d
        c  == FloatErr(n, d)
        eq == FloatExp(2 * q - 1, 2)
        k  == eq - FloatExp(n, d) - 1
    IN IF t > 0 \/ c >= 0 THEN q
       ELSE IF b * (-c) * Pow2(-k) <= d * Pow2(k) THEN q
       ELSE q - 1

\* int(b * ratio) for the float ratio = r[1] / r[2] with r[2] > 0: the
\* product of an int and a double, truncated toward zero
IntTimes(b, r) ==
    IF b = 0 \/ r[1] = 0 THEN 0
    ELSE IF (b < 0) = (r[1] < 0)
         THEN IntTimesPos(Max(b, -b), Max(r[1], -r[1]), r[2])
         ELSE -IntTimesPos(Max(b, -b), Max(r[1], -r[1]), r[2])

---------------------------------------------------------------------------
(* Regular expressions of StructureFolder, matched at the start of a line *)

\* \s of a str pattern: the characters with str.isspace().  These are
\* space, \t, \n, \r, \f, \x0b, \x1c to \x1f, \x85, \xa0, U+1680, and the
\* sixteen of U+2000 to U+200A, U+2028, U+2029, U+202F, U+205F and U+3000,
\* which a string of this module cannot hold and a text of the model
\* therefore never contains.
WS == {" ", "\t", "\n", "\r", "\f", "", "", "", "", "",
       "", " ", " "}

\* \w, over the characters a text of the model holds: the ASCII letters,
\* digits and underscore (the letters and digits outside ASCII, which \w
\* matches too, are in no text of the model)

WordChars == {"a", "b", "c", "d", "e", "f", "g", "h", "i", "j", "k", "l", "m",
              "n", "o", "p", "q", "r", "s", "t", "u", "v", "w", "x", "y", "z",
              "A", "B", "C", "D", "E", "F", "G", "H", "I", "J", "K", "L", "M",
              "N", "O", "P", "Q", "R", "S", "T", "U", "V", "W", "X", "Y", "Z",
              "_", "0", "1", "2", "3", "4", "5", "6", "7", "8", "9"}

StartsWith(s, p) == Len(s) >= Len(p) /\ SubSeq(s, 1, Len(p)) = p

Drop(s, k) == SubSeq(s, k + 1, Len(s))

\* length of the longest prefix of s made of characters of set cls
RECURSIVE Run(_, _)
Run(s, cls) ==
    IF Len(s) = 0 \/ s[1] \notin cls THEN 0 ELSE 1 + Run(Tail(s), cls)

\* kw\s+\w+
KwWord(s, kw) ==
    /\ StartsWith(s, kw)
    /\ LET r == Drop(s, Len(kw)) IN
       /\ Run(r, WS) >= 1
       /\ Run(Drop(r, Run(r, WS)), WordChars) >= 1

\* kw\s+
KwSpace(s, kw) == StartsWith(s, kw) /\ Run(Drop(s, Len(kw)), WS) >= 1

\* ^\s*(class\s+\w+|def\s+\w+|async\s+def\s+\w+)
MatchPyDefs(line) ==
    LET s == Drop(line, Run(line, WS)) IN
    \/ KwWord(s, <<"c", "l", "a", "s", "s">>)
    \/ KwWord(s, <<"d", "e", "f">>)
    \/ /\ KwSpace(s, <<"a", "s", "y", "n", "c">>)
       /\ LET r == Drop(s, 5) IN KwWord(Drop(r, Run(r, WS)), <<"d", "e", "f">>)

\* ^\s*(import\s+|from\s+\w+\s+import)
MatchImports(line) ==
    LET s == Drop(line, Run(line, WS)) IN
    \/ KwSpace(s, <<"i", "m", "p", "o", "r", "t">>)
    \/ /\ KwWord(s, <<"f", "r", "o", "m">>)
       /\ LET r  == Drop(s, 4)
              w  == Drop(r, Run(r, WS))
              t  == Drop(w, Run(w, WordChars))
          IN /\ Run(t, WS) >= 1
             /\ StartsWith(Drop(t, Run(t, WS)), <<"i", "m", "p", "o", "r", "t">>)

\* ^\s*(#{1,3}\s+)
MatchHeaders(line) ==
    LET s == Drop(line, Run(line, WS))
        h == Run(s, {"#"})
    IN h >= 1 /\ h <= 3 /\ Run(Drop(s, h), WS) >= 1

\* ^\s*(function\s+\w+|const\s+\w+\s*=|export\s+)
MatchJsDefs(line) ==
    LET s == Drop(line, Run(line, WS)) IN
    \/ KwWord(s, <<"f", "u", "n", "c", "t", "i", "o", "n">>)
    \/ /\ KwWord(s, <<"c", "o", "n", "s", "t">>)
       /\ LET r == Drop(s, 5)
              w == Drop(r, Run(r, WS))
              t == Drop(w, Run(w, WordChars))
          IN StartsWith(Drop(t, Run(t, WS)), <<"=">>)
    \/ KwSpace(s, <<"e", "x", "p", "o", "r", "t">>)

\* ^(---|\*\*\*|===)
MatchSeparators(line) ==
    \/ StartsWith(line, <<"-", "-", "-">>)
    \/ StartsWith(line, <<"*", "*", "*">>)
    \/ StartsWith(line, <<"=", "=", "=">>)

\* a compiled pattern: one of the five built-in ones, or re.compile of
\* "^" followed by a literal text
Builtin(kind) == [kind |-> kind, text |-> <<>>]

Literal(text) == [kind |-> "literal", text |-> text]

\* p.match(line) is not None
PatternMatch(p, line) ==
    CASE p.kind = "py_defs"    -> MatchPyDefs(line)
      [] p.kind = "imports"    -> MatchImports(line)
      [] p.kind = "headers"    -> MatchHeaders(line)
      [] p.kind = "js_defs"    -> MatchJsDefs(line)
      [] p.kind = "separators" -> MatchSeparators(line)
      [] p.kind = "literal"    -> StartsWith(line, p.text)

STRUCTURE_PATTERNS ==
    <<Builtin("py_defs"), Builtin("imports"), Builtin("headers"),
      Builtin("js_defs"), Builtin("separators")>>

---------------------------------------------------------------------------
(* Folders (folders.py) *)

NoRatio == <<0, 1>>

NoFolder == [class |-> "None", head_ratio |-> NoRatio, patterns |-> <<>>]

\* TruncateFolder()
TruncateFolder == [class |-> "TruncateFolder", head_ratio |-> NoRatio, patterns |-> <<>>]

\* variant: the interval check written with <=
HeadRatioInvalid_inclusive(r) == ~(0 <= r[1] /\ r[1] <= r[2])

\* not 0.0 < head_ratio < 1.0
HeadRatioInvalid(r) == ~(0 < r[1] /\ r[1] < r[2])

\* HeadTailFolder(head_ratio) once the check has passed
HeadTailFolder(r) == [class |-> "HeadTailFolder", head_ratio |-> r, patterns |-> <<>>]

\* StructureFolder(extra_patterns)
StructureFolder(extra) ==
    [class |-> "StructureFolder", head_ratio |-> NoRatio,
     patterns |-> STRUCTURE_PATTERNS \o extra]

TRUNC_A == <<"[", "T", "R", "U", "N", "C", "A", "T", "E", "D", ":", " ">>

TRUNC_B == <<" ", "o", "f", " ">>

TRUNC_C == <<" ", "l", "i", "n", "e", "s", " ", "h", "i", "d", "d", "e", "n", ".", " ", "U", "s", "e", " ", "t", "a", "r", "g", "e", "t", "e", "d", " ", "q", "u", "e", "r", "i", "e", "s", " ", "t", "o", " ", "n", "a", "v", "i", "g", "a", "t", "e", ".", "]">>

\* f"[TRUNCATED: {hidden} of {total} lines hidden. Use targeted queries to navigate.]"
TruncateNotice(hidden, total) ==
    TRUNC_A \o IntStr(hidden) \o TRUNC_B \o IntStr(total) \o TRUNC_C

\* variant: one line too many is kept
TruncateFolder_fold_offbyone(content, budget_lines) ==
    LET lines  == Split(content)
        kept   == PyPrefix(lines, budget_lines + 1)
        hidden == Len(lines) - budget_lines
    IN Join(kept \o <<<<>>>> \o <<TruncateNotice(hidden, Len(lines))>>)

\* variant: the slice forgotten, every line is kept
TruncateFolder_fold_keepall(content, budget_lines) ==
    LET lines  == Split(content)
        kept   == lines
        hidden == Len(lines) - budget_lines
    IN Join(kept \o <<<<>>>> \o <<TruncateNotice(hidden, Len(lines))>>)

TruncateFolder_fold(content, budget_lines) ==
    LET lines  == Split(content)
        kept   == PyPrefix(lines, budget_lines)
        hidden == Len(lines) - budget_lines
    IN Join(kept \o <<<<>>>> \o <<TruncateNotice(hidden, Len(lines))>>)

ELIDE_A == <<"[", ".", ".", ".", " ">>

ELIDE_B == <<" ", "l", "i", "n", "e", "s", " ", "e", "l", "i", "d", "e", "d", " ", ".", ".", ".", "]">>

\* f"[... {hidden} lines elided ...]"
ElideNotice(hidden) == ELIDE_A \o IntStr(hidden) \o ELIDE_B

\* variant: the head share rounded up instead of down
HeadN_ceil(r, budget_lines) ==
    Max(1, (budget_lines * r[1] + r[2] - 1) \div r[2])

\* head_n = max(1, int(budget_lines * self.head_ratio))
HeadN(r, budget_lines) == Max(1, IntTimes(budget_lines, r))

\* variant: the tail share not reduced by the head share
TailN_whole(r, budget_lines) == Max(1, budget_lines)

\* tail_n = max(1, budget_lines - head_n)
TailN(r, budget_lines) == Max(1, budget_lines - HeadN(r, budget_lines))

HeadTailFolder_fold(self, content, budget_lines) ==
    LET lines  == Split(content)
        total  == Len(lines)
        head_n == HeadN(self.head_ratio, budget_lines)
        tail_n == TailN(self.head_ratio, budget_lines)
        hidden == total - head_n - tail_n
        head   == PyPrefix(lines, head_n)
        tail   == PySuffix(lines, -tail_n)
    IN Join(head \o <<<<>>>> \o <<ElideNotice(hidden)>> \o <<<<>>>> \o tail)

FOLDED_A == <<"[", "F", "O", "L", "D", "E", "D", ":", " ", "s", "h", "o", "w", "i", "n", "g", " ">>

FOLDED_B == <<" ", "s", "t", "r", "u", "c", "t", "u", "r", "a", "l", " ", "m", "a", "r", "k", "e", "r", "s", " ", "f", "r", "o", "m", " ">>

FOLDED_C == <<" ", "l", "i", "n", "e", "s", ".", " ", "Q", "u", "e", "r", "y", " ", "s", "p", "e", "c", "i", "f", "i", "c", " ", "s", "y", "m", "b", "o", "l", "s", " ", "t", "o", " ", "e", "x", "p", "a", "n", "d", ".", "]">>

\* f"[FOLDED: showing {shown} structural markers from {total} lines. Query ...]"
FoldedNotice(shown, total) ==
    FOLDED_A \o IntStr(shown) \o FOLDED_B \o IntStr(total) \o FOLDED_C

\* any(p.match(line) for p in self.patterns)
IsStructural(patterns, line) ==
    \E k \in 1..Len(patterns) : PatternMatch(patterns[k], line)

\* the indices i of from..n with keep[i], in increasing order
RECURSIVE IndicesFrom(_, _, _)
IndicesFrom(keep, from, n) ==
    IF from > n THEN <<>>
    ELSE IF from = n THEN (IF keep[from] THEN <<from>> ELSE <<>>)
    ELSE LET m == (from + n) \div 2
         IN IndicesFrom(keep, from, m) \o IndicesFrom(keep, m + 1, n)

\* variant: the last structural lines are kept when they exceed the budget
StructureFolder_chosen_last(self, lines, budget_lines) ==
    LET total      == Len(lines)
        isStruct   == [i \in 1..total |-> IsStructural(self.patterns, lines[i])]
        structural == IndicesFrom(isStruct, 1, total)
        others     == IndicesFrom([i \in 1..total |-> ~isStruct[i]], 1, total)
    IN IF Len(structural) >= budget_lines
       THEN PySuffix(structural, Len(structural) - budget_lines)
       ELSE structural \o PyPrefix(others, budget_lines - Len(structural))

\* variant: the head fill does not skip the structural lines
StructureFolder_chosen_noskip(self, lines, budget_lines) ==
    LET total      == Len(lines)
        isStruct   == [i \in 1..total |-> IsStructural(self.patterns, lines[i])]
        structural == IndicesFrom(isStruct, 1, total)
        every      == IndicesFrom([i \in 1..total |-> TRUE], 1, total)
    IN IF Len(structural) >= budget_lines
       THEN PyPrefix(structural, budget_lines)
       ELSE structural \o PyPrefix(every, budget_lines - Len(structural))

\* variant: the remaining budget is filled from the end of the content
StructureFolder_chosen_tailfill(self, lines, budget_lines) ==
    LET total      == Len(lines)
        isStruct   == [i \in 1..total |-> IsStructural(self.patterns, lines[i])]
        structural == IndicesFrom(isStruct, 1, total)
        others     == IndicesFrom([i \in 1..total |-> ~isStruct[i]], 1, total)
        remaining  == budget_lines - Len(structural)
    IN IF Len(structural) >= budget_lines
       THEN PyPrefix(structural, budget_lines)
       ELSE structural \o PySuffix(others, Max(0, Len(others) - remaining))

\* the lines chosen by StructureFolder.fold, as indices into lines (1-based)
StructureFolder_chosen(self, lines, budget_lines) ==
    LET total      == Len(lines)
        isStruct   == [i \in 1..total |-> IsStructural(self.patterns, lines[i])]
        structural == IndicesFrom(isStruct, 1, total)
        others     == IndicesFrom([i \in 1..total |-> ~isStruct[i]], 1, total)
    IN IF Len(structural) >= budget_lines
       THEN PyPrefix(structural, budget_lines)
       ELSE structural \o PyPrefix(others, budget_lines - Len(structural))

StructureFolder_fold(self, content, budget_lines) ==
    LET lines        == Split(content)
        total        == Len(lines)
        chosen       == StructureFolder_chosen(self, lines, budget_lines)
        result_lines == [k \in 1..Len(chosen) |-> lines[chosen[k]]]
        \* the notice is formatted after the blank line was appended:
        \* len(result_lines) - 2 counts the content lines minus one
        with_blank   == result_lines \o <<<<>>>>
    IN Join(with_blank \o <<FoldedNotice(Len(with_blank) - 2, total)>>)

\* folder.fold(content, budget_lines), dispatched on the folder's class
Fold(self, content, budget_lines) ==
    CASE self.class = "TruncateFolder"  -> TruncateFolder_fold(content, budget_lines)
      [] self.class = "HeadTailFolder"  -> HeadTailFolder_fold(self, content, budget_lines)
      [] self.class = "StructureFolder" -> StructureFolder_fold(self, content, budget_lines)

---------------------------------------------------------------------------
(* Constraints (constraints.py) *)

NoConstraint ==
    [class |-> "None", max_lines |-> 0, max_chars |-> 0, folder |-> NoFolder]

\* folder argument of a constraint constructor: None selects TruncateFolder()
DefaultFolder(f) == IF f.class = "None" THEN TruncateFolder ELSE f

\* LineLimit(max_lines, folder) once the check has passed
LineLimit(max_lines, f) ==
    [class |-> "LineLimit", max_lines |-> max_lines, max_chars |-> 0,
     folder |-> DefaultFolder(f)]

\* TokenBudget(max_chars, folder) once the check has passed
TokenBudget(max_chars, f) ==
    [class |-> "TokenBudget", max_lines |-> 0, max_chars |-> max_chars,
     folder |-> DefaultFolder(f)]

\* Unconstrained()
Unconstrained ==
    [class |-> "Unconstrained", max_lines |-> 0, max_chars |-> 0, folder |-> NoFolder]

ConstraintResult(content, was_truncated, metadata) ==
    [content |-> content, was_truncated |-> was_truncated, metadata |-> metadata]

\* variant: the limit taken as exclusive
LineLimit_passes_strict(self, content) == Len(Split(content)) < self.max_lines

\* total <= self.max_lines
LineLimit_passes(self, content) == Len(Split(content)) <= self.max_lines

\* variant: one line of the budget reserved for the notice
LineLimit_apply_reserve(self, content) ==
    LET lines == Split(content)
        total == Len(lines)
    IN IF LineLimit_passes(self, content)
       THEN ConstraintResult(content, FALSE,
                [lines_shown |-> total, lines_hidden |-> 0, total_lines |-> total])
       ELSE ConstraintResult(Fold(self.folder, content, self.max_lines - 1), TRUE,
                [lines_shown  |-> self.max_lines,
                 lines_hidden |-> total - self.max_lines,
                 total_lines  |-> total,
                 folder       |-> self.folder.class])

\* variant: the operands of the hidden count swapped
LineLimit_apply_swapped(self, content) ==
    LET lines == Split(content)
        total == Len(lines)
    IN IF LineLimit_passes(self, content)
       THEN ConstraintResult(content, FALSE,
                [lines_shown |-> total, lines_hidden |-> 0, total_lines |-> total])
       ELSE ConstraintResult(Fold(self.folder, content, self.max_lines), TRUE,
                [lines_shown  |-> self.max_lines,
                 lines_hidden |-> self.max_lines - total,
                 total_lines  |-> total,
                 folder       |-> self.folder.class])

\* variant: lines_shown reports the line count of the whole content
LineLimit_apply_total(self, content) ==
    LET lines == Split(content)
        total == Len(lines)
    IN IF LineLimit_passes(self, content)
       THEN ConstraintResult(content, FALSE,
                [lines_shown |-> total, lines_hidden |-> 0, total_lines |-> total])
       ELSE ConstraintResult(Fold(self.folder, content, self.max_lines), TRUE,
                [lines_shown  |-> total,
                 lines_hidden |-> total - self.max_lines,
                 total_lines  |-> total,
                 folder       |-> self.folder.class])

LineLimit_apply(self, content) ==
    LET lines == Split(content)
        total == Len(lines)
    IN IF LineLimit_passes(self, content)
       THEN ConstraintResult(content, FALSE,
                [lines_shown |-> total, lines_hidden |-> 0, total_lines |-> total])
       ELSE ConstraintResult(Fold(self.folder, content, self.max_lines), TRUE,
                [lines_shown  |-> self.max_lines,
                 lines_hidden |-> total - self.max_lines,
                 total_lines  |-> total,
                 folder       |-> self.folder.class])

\* variant: the budget taken as exclusive
TokenBudget_passes_strict(self, content) == Len(content) < self.max_chars

\* total <= self.max_chars
TokenBudget_passes(self, content) == Len(content) <= self.max_chars

\* variant: the average line length not floored at one character
TokenBudget_avg_line_len_nofloor(content) ==
    Len(content) \div Max(1, CountNL(content) + 1)

\* avg_line_len = max(1, total // max(1, content.count("\n") + 1))
TokenBudget_avg_line_len(content) ==
    Max(1, Len(content) \div Max(1, CountNL(content) + 1))

\* variant: the line budget not floored at one line
TokenBudget_budget_lines_nofloor(self, content) ==
    LET avg_line_len == TokenBudget_avg_line_len(content)
    IN self.max_chars \div avg_line_len

\* avg_line_len, then budget_lines
TokenBudget_budget_lines(self, content) ==
    LET avg_line_len == TokenBudget_avg_line_len(content)
    IN Max(1, self.max_chars \div avg_line_len)

\* TokenBudget.apply raises ZeroDivisionError when one of its two floor
\* divisions, reached on the truncating branch only, has a zero divisor
TokenBudget_apply_raises(self, content) ==
    /\ ~TokenBudget_passes(self, content)
    /\ \/ Max(1, CountNL(content) + 1) = 0
       \/ TokenBudget_avg_line_len(content) = 0

\* variant: the hidden count computed before the branch and always reported
TokenBudget_apply_hidden(self, content) ==
    LET total  == Len(content)
        hidden == total - self.max_chars
    IN IF TokenBudget_passes(self, content)
       THEN ConstraintResult(content, FALSE,
                [chars_shown |-> total, chars_hidden |-> hidden, total_chars |-> total])
       ELSE LET budget_lines == TokenBudget_budget_lines(self, content)
                fold_out     == Fold(self.folder, content, budget_lines)
            IN ConstraintResult(fold_out, TRUE,
                [chars_shown  |-> Len(fold_out),
                 chars_hidden |-> hidden,
                 total_chars  |-> total,
                 folder       |-> self.folder.class])

TokenBudget_apply(self, content) ==
    LET total == Len(content)
    IN IF TokenBudget_passes(self, content)
       THEN ConstraintResult(content, FALSE,
                [chars_shown |-> total, chars_hidden |-> 0, total_chars |-> total])
       ELSE LET budget_lines == TokenBudget_budget_lines(self, content)
                fold_out     == Fold(self.folder, content, budget_lines)
            IN ConstraintResult(fold_out, TRUE,
                [chars_shown  |-> Len(fold_out),
                 chars_hidden |-> total - self.max_chars,
                 total_chars  |-> total,
                 folder       |-> self.folder.class])

\* variant: the line count reported as total_chars
Unconstrained_apply_lines(self, content) ==
    ConstraintResult(content, FALSE, [total_chars |-> Len(Split(content))])

Unconstrained_apply(self, content) ==
    ConstraintResult(content, FALSE, [total_chars |-> Len(content)])

\* constraint.apply(content), dispatched on the constraint's class
Apply(self, content) ==
    CASE self.class = "LineLimit"     -> LineLimit_apply(self, content)
      [] self.class = "TokenBudget"   -> TokenBudget_apply(self, content)
      [] self.class = "Unconstrained" -> Unconstrained_apply(self, content)

\* constraint.apply(content) raises instead of returning; LineLimit.apply and
\* Unconstrained.apply have no raise and no operation that can fail
Apply_raises(self, content) ==
    CASE self.class = "LineLimit"     -> FALSE
      [] self.class = "TokenBudget"   -> TokenBudget_apply_raises(self, content)
      [] self.class = "Unconstrained" -> FALSE

\* the fold calls one apply makes: <<>> or one (content, budget_lines) pair
FoldCalls(self, content) ==
    CASE self.class = "LineLimit" ->
            IF LineLimit_passes(self, content) THEN <<>>
            ELSE <<[content |-> content, budget_lines |-> self.max_lines]>>
      [] self.class = "TokenBudget" ->
            IF TokenBudget_passes(self, content) THEN <<>>
            ELSE <<[content |-> content,
                    budget_lines |-> TokenBudget_budget_lines(self, content)]>>
      [] self.class = "Unconstrained" -> <<>>

---------------------------------------------------------------------------
(* Inputs *)

\* the lines contents are built from: empty, plain, markdown header
LineVals == {<<>>, <<"a">>, <<"#", " ", "a">>}

\* lines of a file with CRLF line ends, split on "\n": plain, bare header
CRLines == {<<"a", "\r">>, <<"#", "\r">>}

\* LongBudget + 1 lines, alternately "a" and empty
LongContent ==
    Join([i \in 1..(LongBudget + 1) |-> IF i % 2 = 1 THEN <<"a">> ELSE <<>>])

Contents ==
    {Join(ls) : ls \in UNION {[1..n -> LineVals] : n \in 1..MaxLines}}
        \cup {Join(ls) : ls \in UNION {[1..n -> CRLines] : n \in 1..MaxBudget}}
        \cup {LongContent}

\* head_ratio arguments: -0.5, 0, 0.1, 0.5, 0.7, 1, 1.5
HeadRatioArgs ==
    {<<-1, 2>>, <<0, 1>>, <<1, 10>>, <<1, 2>>, <<7, 10>>, <<1, 1>>, <<3, 2>>}

\* extra_patterns arguments: None, or [re.compile(r"^a")]
ExtraPatternArgs == {<<>>, <<Literal(<<"a">>)>>}

MaxLinesArgs == (-1..MaxBudget) \cup {LongBudget}

MaxCharsArgs == -1..MaxChars

FoldBudgetArgs == (0..MaxBudget) \cup {LongBudget}

---------------------------------------------------------------------------
(* State machine: construct a folder, hand it to a constraint (which then   *)
(* owns it) or call fold on it; call apply on the constraint.  Calls are   *)
(* synchronous: `call` holds the call whose return value the caller is     *)
(* looking at, and Return drops that value; the objects stay for the next  *)
(* call or construction.                                                   *)

NoCall == [op |-> "none", content |-> <<>>, budget_lines |-> 0]

NoResult == ConstraintResult(<<>>, FALSE, <<>>)

\* two callers that share one constraint instance
Threads == {"t1", "t2"}

\* a caller's ConstraintResult object: its identity and its value
NoRet == [id |-> 0, value |-> NoResult]

\* a caller outside apply
ThreadIdle == [pc |-> "idle", content |-> <<>>, ret |-> NoRet]

\* the objects that exist once the package is imported: the module-level
\* list _STRUCTURE_PATTERNS, at address 1
ModuleHeap == <<[kind |-> "list", items |-> STRUCTURE_PATTERNS]>>

\* the rollout state and what the environment has seen and produced
EnvVars == <<state, seen, tool_messages, metric, logged>>

\* a dict with no key
EmptyDict == [k \in {} |-> 0]

\* no metric has been computed on the current state
NoMetric == [scored |-> FALSE, value |-> <<0, 1>>]

\* no environment exists: no rollout state, no message, nothing logged
NoEnv ==
    /\ state = EmptyDict
    /\ seen = <<>>
    /\ tool_messages = <<>>
    /\ metric = NoMetric
    /\ logged = <<>>

Init ==
    /\ NoEnv
    /\ threads = [t \in Threads |-> ThreadIdle]
    /\ heap = ModuleHeap
    /\ bundles = <<>>
    /\ folder = NoFolder
    /\ constraint = NoConstraint
    /\ err = FALSE
    /\ call = NoCall
    /\ result = NoResult
    /\ folded = <<>>
    /\ fold_calls = <<>>
    /\ raised = FALSE

\* no call is in progress
Idle == call.op = "none"

\* a constructor ran: nothing has been called on the new object yet
Fresh ==
    /\ call' = NoCall
    /\ result' = NoResult
    /\ folded' = <<>>
    /\ fold_calls' = <<>>
    /\ raised' = FALSE
    /\ UNCHANGED <<threads, heap, bundles, EnvVars>>

\* f = TruncateFolder()
NewTruncateFolder ==
    /\ Idle
    /\ folder' = TruncateFolder
    /\ constraint' = NoConstraint
    /\ err' = FALSE
    /\ Fresh

\* f = HeadTailFolder(head_ratio)
NewHeadTailFolder(r) ==
    /\ Idle
    /\ IF HeadRatioInvalid(r)
       THEN folder' = NoFolder /\ err' = TRUE
       ELSE folder' = HeadTailFolder(r) /\ err' = FALSE
    /\ constraint' = NoConstraint
    /\ Fresh

\* f = StructureFolder(extra_patterns)
NewStructureFolder(extra) ==
    /\ Idle
    /\ folder' = StructureFolder(extra)
    /\ constraint' = NoConstraint
    /\ err' = FALSE
    /\ Fresh

\* c = LineLimit(max_lines, folder=f), f the folder built before or None
NewLineLimit(max_lines) ==
    /\ Idle
    /\ IF max_lines < 1
       THEN constraint' = NoConstraint /\ err' = TRUE /\ folder' = folder
       ELSE constraint' = LineLimit(max_lines, folder) /\ err' = FALSE
            /\ folder' = NoFolder
    /\ Fresh

\* c = TokenBudget(max_chars, folder=f)
NewTokenBudget(max_chars) ==
    /\ Idle
    /\ IF max_chars < 1
       THEN constraint' = NoConstraint /\ err' = TRUE /\ folder' = folder
       ELSE constraint' = TokenBudget(max_chars, folder) /\ err' = FALSE
            /\ folder' = NoFolder
    /\ Fresh

\* c = Unconstrained()
NewUnconstrained ==
    /\ Idle
    /\ constraint' = Unconstrained
    /\ folder' = NoFolder
    /\ err' = FALSE
    /\ Fresh

\* result = c.apply(content)
CallApply(content) ==
    /\ constraint.class # "None"
    /\ Idle
    /\ call' = [op |-> "apply", content |-> content, budget_lines |-> 0]
    /\ LET exc == Apply_raises(constraint, content)
       IN /\ raised' = exc
          /\ result' = IF exc THEN NoResult ELSE Apply(constraint, content)
          /\ fold_calls' = IF exc THEN <<>> ELSE FoldCalls(constraint, content)
    /\ folded' = <<>>
    /\ UNCHANGED <<folder, constraint, err, threads, heap, bundles, EnvVars>>

\* folded = f.fold(content, budget_lines)
CallFold(content, budget_lines) ==
    /\ folder.class # "None"
    /\ Idle
    /\ call' = [op |-> "fold", content |-> content, budget_lines |-> budget_lines]
    /\ folded' = Fold(folder, content, budget_lines)
    /\ result' = NoResult
    /\ fold_calls' = <<>>
    /\ raised' = FALSE
    /\ UNCHANGED <<folder, constraint, err, threads, heap, bundles, EnvVars>>

\* the caller is done with the returned value
Return ==
    /\ ~Idle
    /\ Fresh
    /\ UNCHANGED <<folder, constraint, err>>

Next ==
    \/ NewTruncateFolder
    \/ \E r \in HeadRatioArgs : NewHeadTailFolder(r)
    \/ \E extra \in ExtraPatternArgs : NewStructureFolder(extra)
    \/ \E n \in MaxLinesArgs : NewLineLimit(n)
    \/ \E n \in MaxCharsArgs : NewTokenBudget(n)
    \/ NewUnconstrained
    \/ \E content \in Contents : CallApply(content)
    \/ \E content \in Contents, b \in FoldBudgetArgs : CallFold(content, b)
    \/ Return

Spec == Init /\ [][Next]_vars

---------------------------------------------------------------------------
(* Properties *)

\* number of lines of a text: one more than its number of line separators
NumLines(content) == CountNL(content) + 1

\* the call under observation is c.apply(...) on a constraint of class cls
Applied(cls) == call.op = "apply" /\ constraint.class = cls

\* the call under observation is f.fold(...) on a folder of class cls
Folded(cls) == call.op = "fold" /\ folder.class = cls

FolderNames == {"TruncateFolder", "HeadTailFolder", "StructureFolder"}

\* C1: LineLimit.apply on a text of at most max_lines lines (the limit is
\* inclusive, the empty text has one line) returns the text unchanged with
\* was_truncated = FALSE and metadata exactly {lines_shown: total,
\* lines_hidden: 0, total_lines: total}, and makes no fold call.
C1_LineLimitPassthrough ==
    (Applied("LineLimit") /\ NumLines(call.content) <= constraint.max_lines) =>
        /\ constraint.max_lines >= 1
        /\ result.content = call.content
        /\ result.was_truncated = FALSE
        /\ result.metadata = [lines_shown  |-> NumLines(call.content),
                              lines_hidden |-> 0,
                              total_lines  |-> NumLines(call.content)]
        /\ fold_calls = <<>>

C1_Witness ==
    /\ Applied("LineLimit")
    /\ constraint.max_lines >= 2
    /\ NumLines(call.content) = constraint.max_lines
    /\ result.content = call.content

\* C2: LineLimit.apply on a text of more than max_lines lines returns
\* was_truncated = TRUE, the content fold(text, max_lines) of its folder, and
\* metadata lines_shown = max_lines, lines_hidden = total - max_lines,
\* total_lines = total, folder = the folder's class name; a LineLimit built
\* without a folder has a TruncateFolder.
C2_LineLimitTruncation ==
    [][ /\ (folder = NoFolder /\ constraint' # constraint
                /\ constraint'.class = "LineLimit")
            => constraint'.folder = TruncateFolder
        /\ (call'.op = "apply" /\ constraint'.class = "LineLimit"
                /\ NumLines(call'.content) > constraint'.max_lines)
            => /\ result'.was_truncated = TRUE
               /\ constraint'.folder.class \in FolderNames
               /\ fold_calls' = <<[content      |-> call'.content,
                                   budget_lines |-> constraint'.max_lines]>>
               /\ result'.content =
                      Fold(constraint'.folder, call'.content, constraint'.max_lines)
               /\ result'.metadata =
                      [lines_shown  |-> constraint'.max_lines,
                       lines_hidden |-> NumLines(call'.content) - constraint'.max_lines,
                       total_lines  |-> NumLines(call'.content),
                       folder       |-> constraint'.folder.class]
      ]_vars

C2_Witness ==
    /\ Applied("LineLimit")
    /\ constraint.folder.class = "StructureFolder"
    /\ NumLines(call.content) = constraint.max_lines + 2
    /\ result.was_truncated
    /\ result.metadata.lines_hidden = 2

\* C3: whenever apply of LineLimit, TokenBudget or Unconstrained returns
\* was_truncated = FALSE, the content is the input and every hidden counter
\* of the metadata (lines_hidden, chars_hidden) is absent or 0.
C3_NotTruncatedIsIdentity ==
    (call.op = "apply" /\ result.was_truncated = FALSE) =>
        /\ result.content = call.content
        /\ "lines_hidden" \in DOMAIN result.metadata => result.metadata.lines_hidden = 0
        /\ "chars_hidden" \in DOMAIN result.metadata => result.metadata.chars_hidden = 0

C3_Witness ==
    /\ Applied("TokenBudget")
    /\ result.was_truncated = FALSE
    /\ Len(call.content) >= 2
    /\ "chars_hidden" \in DOMAIN result.metadata

\* C4: TokenBudget.apply on a text of at most max_chars characters (the limit
\* is inclusive; the empty text included) returns the text unchanged with
\* was_truncated = FALSE and metadata exactly {chars_shown: total,
\* chars_hidden: 0, total_chars: total}, and makes no fold call.
C4_TokenBudgetPassthrough ==
    (Applied("TokenBudget") /\ Len(call.content) <= constraint.max_chars) =>
        /\ constraint.max_chars >= 1
        /\ result.content = call.content
        /\ result.was_truncated = FALSE
        /\ result.metadata = [chars_shown  |-> Len(call.content),
                              chars_hidden |-> 0,
                              total_chars  |-> Len(call.content)]
        /\ fold_calls = <<>>

C4_Witness ==
    /\ Applied("TokenBudget")
    /\ Len(call.content) = constraint.max_chars
    /\ result.content = call.content

\* the line budget C5 states: max(1, max_chars div max(1, total div (newlines + 1)))
C5_Budget(max_chars, content) ==
    Max(1, max_chars \div Max(1, Len(content) \div (CountNL(content) + 1)))

\* C5: TokenBudget.apply on a text of more than max_chars characters hands
\* its folder the line budget max(1, max_chars div max(1, total_chars div
\* (newline_count + 1))), returns fold(text, that budget) with
\* was_truncated = TRUE, and metadata chars_shown = length of the folded
\* content, chars_hidden = total_chars - max_chars, total_chars, folder =
\* the folder's class name.
C5_TokenBudgetTruncation ==
    (Applied("TokenBudget") /\ Len(call.content) > constraint.max_chars) =>
        LET b == C5_Budget(constraint.max_chars, call.content) IN
        /\ fold_calls = <<[content |-> call.content, budget_lines |-> b]>>
        /\ result.content = Fold(constraint.folder, call.content, b)
        /\ result.was_truncated = TRUE
        /\ constraint.folder.class \in FolderNames
        /\ result.metadata = [chars_shown  |-> Len(result.content),
                              chars_hidden |-> Len(call.content) - constraint.max_chars,
                              total_chars  |-> Len(call.content),
                              folder       |-> constraint.folder.class]

C5_Witness ==
    /\ Applied("TokenBudget")
    /\ result.was_truncated
    /\ fold_calls # <<>>
    /\ fold_calls[1].budget_lines >= 2
    /\ CountNL(call.content) >= 2

\* C6: Unconstrained.apply returns, for every text, the text unchanged with
\* was_truncated = FALSE and metadata exactly {total_chars: length of the
\* text}, and makes no fold call.
C6_UnconstrainedPassthrough ==
    Applied("Unconstrained") =>
        /\ result.content = call.content
        /\ result.was_truncated = FALSE
        /\ result.metadata = [total_chars |-> Len(call.content)]
        /\ fold_calls = <<>>

C6_Witness ==
    /\ Applied("Unconstrained")
    /\ Len(call.content) > MaxChars
    /\ NumLines(call.content) > MaxBudget
    /\ result.content = call.content

\* the fraction r lies in the open interval (0, 1)
InUnitInterval(r) == 0 < r[1] /\ r[1] < r[2]

\* C7: a constructor fails exactly when its argument is out of domain
\* (max_lines < 1, max_chars < 1, head_ratio <= 0 or >= 1); a failed
\* construction leaves no object of that kind and no call result, and every
\* in-domain argument yields the configured object.
C7_ConfigurationErrors ==
    [][ /\ \A n \in MaxLinesArgs : NewLineLimit(n) =>
              /\ err' = (n < 1)
              /\ n < 1  => constraint' = NoConstraint /\ result' = NoResult
                           /\ call' = NoCall /\ fold_calls' = <<>>
              /\ n >= 1 => constraint'.class = "LineLimit" /\ constraint'.max_lines = n
        /\ \A n \in MaxCharsArgs : NewTokenBudget(n) =>
              /\ err' = (n < 1)
              /\ n < 1  => constraint' = NoConstraint /\ result' = NoResult
                           /\ call' = NoCall /\ fold_calls' = <<>>
              /\ n >= 1 => constraint'.class = "TokenBudget" /\ constraint'.max_chars = n
        /\ \A r \in HeadRatioArgs : NewHeadTailFolder(r) =>
              /\ err' = ~InUnitInterval(r)
              /\ ~InUnitInterval(r) => folder' = NoFolder /\ folded' = <<>>
                                       /\ call' = NoCall
              /\ InUnitInterval(r) =>
                    folder'.class = "HeadTailFolder" /\ folder'.head_ratio = r
      ]_vars

C7_Witness ==
    /\ err = TRUE
    /\ folder.class = "HeadTailFolder"
    /\ constraint = NoConstraint
    /\ call = NoCall

\* C8: for a fixed content and folder, lines_hidden never grows with the
\* limit: the lines_hidden of LineLimit(b).apply(content) is at most that of
\* LineLimit(a).apply(content) for every 1 <= a <= b.
C8_LineLimitMonotone ==
    Applied("LineLimit") =>
        \A a \in 1..constraint.max_lines :
            LineLimit_apply(LineLimit(a, constraint.folder), call.content)
                .metadata.lines_hidden >= result.metadata.lines_hidden

C8_Witness ==
    /\ Applied("LineLimit")
    /\ constraint.max_lines >= 2
    /\ result.was_truncated
    /\ result.metadata.lines_hidden >= 1

\* C9: TruncateFolder.fold(content, N), N >= 1, on a content of more than N
\* lines returns exactly N + 2 lines: content lines 0..N-1 in order, an
\* empty line, and the notice reporting total - N hidden of total lines; no
\* later content line precedes the notice.
C9_TruncateFolderFold ==
    (Folded("TruncateFolder") /\ call.budget_lines >= 1
        /\ NumLines(call.content) > call.budget_lines) =>
        LET N     == call.budget_lines
            total == NumLines(call.content)
            out   == Split(folded)
            lines == Split(call.content)
        IN /\ Len(out) = N + 2
           /\ \A i \in 1..N : out[i] = lines[i]
           /\ out[N + 1] = <<>>
           /\ out[N + 2] = TruncateNotice(total - N, total)

C9_Witness ==
    /\ Folded("TruncateFolder")
    /\ call.budget_lines = 2
    /\ NumLines(call.content) = 4
    /\ Split(call.content)[2] # Split(call.content)[3]

\* the first k and the last k elements of a sequence (all of it when shorter)
FirstK(s, k) == [i \in 1..Min(k, Len(s)) |-> s[i]]

LastK(s, k) == [i \in 1..Min(k, Len(s)) |-> s[Len(s) - Min(k, Len(s)) + i]]

\* floor(b * r): b * r is the product the expression evaluates to, a
\* double that is never negative for b >= 0 and r > 0, so that floor and
\* truncation toward zero give the same number
FloorTimes(b, r) == IntTimes(b, r)

\* C10: HeadTailFolder.fold(content, budget_lines) with ratio r computes
\* head_n = max(1, floor(budget_lines * r)), tail_n = max(1, budget_lines -
\* head_n) and returns the first head_n lines, an empty line, the elision
\* marker carrying total - head_n - tail_n, an empty line and the last
\* tail_n lines, in that order.
C10_HeadTailFolderFold ==
    Folded("HeadTailFolder") =>
        LET lines  == Split(call.content)
            total  == NumLines(call.content)
            head_n == Max(1, FloorTimes(call.budget_lines, folder.head_ratio))
            tail_n == Max(1, call.budget_lines - head_n)
        IN /\ InUnitInterval(folder.head_ratio)
           /\ folded = Join(FirstK(lines, head_n)
                            \o <<<<>>, ElideNotice(total - head_n - tail_n), <<>>>>
                            \o LastK(lines, tail_n))

\* more lines than the budget, and lines that differ where the head ends
C10_Witness ==
    /\ Folded("HeadTailFolder")
    /\ call.budget_lines = LongBudget
    /\ NumLines(call.content) = LongBudget + 1
    /\ folder.head_ratio = <<7, 10>>
    /\ LET h == HeadN(folder.head_ratio, call.budget_lines)
       IN Split(call.content)[h] # Split(call.content)[h + 1]

\* apply truncated and its folder is of class cls
TruncatedWith(cls) ==
    call.op = "apply" /\ result.was_truncated /\ constraint.folder.class = cls

\* the line budget of the fold call the observed apply made
FoldBudget == fold_calls[1].budget_lines

\* head_n and tail_n as the specification states them
SpecHeadN(r, b) == Max(1, FloorTimes(b, r))

SpecTailN(r, b) == Max(1, b - SpecHeadN(r, b))

\* the first and the last line of the input are the first and the last
\* line of the returned content
FirstAndLastShown ==
    LET lines == Split(call.content)
        out   == Split(result.content)
    IN out[1] = lines[1] /\ out[Len(out)] = lines[Len(lines)]

\* C11 as stated: for every fold call a truncating LineLimit.apply or
\* TokenBudget.apply makes on a HeadTailFolder, head_n + tail_n <= total
\* (head and tail do not overlap) and the first and the last line of the
\* content are in the output.
C11_AsStated ==
    TruncatedWith("HeadTailFolder") =>
        /\ SpecHeadN(constraint.folder.head_ratio, FoldBudget)
             + SpecTailN(constraint.folder.head_ratio, FoldBudget)
               <= NumLines(call.content)
        /\ FirstAndLastShown

\* C11 (amended): for every fold call a truncating LineLimit.apply makes on
\* a HeadTailFolder, head_n + tail_n <= total, so the output holds
\* head_n + tail_n content lines and no line twice; for LineLimit.apply and
\* TokenBudget.apply alike the first and the last line of the content are
\* in the output.
C11_HeadTailComposition ==
    TruncatedWith("HeadTailFolder") =>
        /\ FirstAndLastShown
        /\ constraint.class = "LineLimit" =>
              LET h == SpecHeadN(constraint.folder.head_ratio, FoldBudget)
                  t == SpecTailN(constraint.folder.head_ratio, FoldBudget)
              IN /\ h + t <= NumLines(call.content)
                 /\ Len(Split(result.content)) = h + t + 3

C11_Witness ==
    /\ TruncatedWith("HeadTailFolder")
    /\ constraint.class = "LineLimit"
    /\ constraint.max_lines = LongBudget
    /\ constraint.folder.head_ratio = <<7, 10>>
    /\ NumLines(call.content) = LongBudget + 1

\* the lines of a text that are structural, and those that are not, in order
StructLines(patterns, content) ==
    SelectSeq(Split(content), LAMBDA l : IsStructural(patterns, l))

PlainLines(patterns, content) ==
    SelectSeq(Split(content), LAMBDA l : ~IsStructural(patterns, l))

\* the content lines of a StructureFolder or TruncateFolder output: all but
\* the blank line and the notice
Emitted(text) == LET out == Split(text) IN SubSeq(out, 1, Len(out) - 2)

\* C12: StructureFolder.fold with at least budget_lines structural lines
\* emits exactly the first budget_lines structural lines in document order:
\* no other line, and no later structural line.
C12_StructureFolderFull ==
    (Folded("StructureFolder")
        /\ Len(StructLines(folder.patterns, call.content)) >= call.budget_lines) =>
        Emitted(folded) =
            SubSeq(StructLines(folder.patterns, call.content), 1, call.budget_lines)

C12_Witness ==
    /\ Folded("StructureFolder")
    /\ call.budget_lines >= 1
    /\ LET st == StructLines(folder.patterns, call.content)
       IN /\ Len(st) > call.budget_lines
          /\ st[1] # st[Len(st)]
          /\ ~IsStructural(folder.patterns, Split(call.content)[1])

\* C13: StructureFolder.fold with s < budget_lines structural lines emits
\* all s structural lines in order, then the first min(budget_lines - s,
\* number of other lines) other lines in order: min(budget_lines, total)
\* content lines, none twice.
C13_StructureFolderFill ==
    (Folded("StructureFolder")
        /\ Len(StructLines(folder.patterns, call.content)) < call.budget_lines) =>
        LET st    == StructLines(folder.patterns, call.content)
            plain == PlainLines(folder.patterns, call.content)
            fill  == Min(call.budget_lines - Len(st), Len(plain))
        IN /\ Emitted(folded) = st \o SubSeq(plain, 1, fill)
           /\ Len(Emitted(folded)) = Min(call.budget_lines, NumLines(call.content))

\* a bare header of a CRLF file is the one structural line, after a plain
\* line
C13_Witness ==
    /\ Folded("StructureFolder")
    /\ call.budget_lines < NumLines(call.content)
    /\ LET st == StructLines(folder.patterns, call.content)
       IN /\ st = <<<<"#", "\r">>>>
          /\ Len(st) < call.budget_lines
          /\ ~IsStructural(folder.patterns, Split(call.content)[1])

\* C14: every StructureFolder.fold output ends with an empty line and the
\* marker, and the marker prints the number of emitted content lines that
\* match a structural pattern, and the number of lines of the input.
C14_StructureNotice ==
    (Folded("StructureFolder") /\ call.budget_lines >= 1) =>
        LET out   == Split(folded)
            shown == SelectSeq(Emitted(folded),
                               LAMBDA l : IsStructural(folder.patterns, l))
        IN /\ Len(out) >= 2
           /\ out[Len(out) - 1] = <<>>
           /\ out[Len(out)] = FoldedNotice(Len(shown), NumLines(call.content))

\* the notice texts the tests look for
OUTPUT_TRUNCATED ==
    <<"[", "O", "U", "T", "P", "U", "T", " ", "T", "R", "U", "N", "C", "A", "T", "E", "D">>

LINES_HIDDEN == <<" ", "l", "i", "n", "e", "s", " ", "h", "i", "d", "d", "e", "n">>

\* "[OUTPUT TRUNCATED: H of T lines hidden"
OutputTruncatedNotice(hidden, total) ==
    OUTPUT_TRUNCATED \o <<":", " ">> \o IntStr(hidden) \o <<" ", "o", "f", " ">>
        \o IntStr(total) \o LINES_HIDDEN

\* C15: whenever LineLimit.apply or TokenBudget.apply truncates with the
\* default TruncateFolder, a line of the returned content begins with
\* "[OUTPUT TRUNCATED"; for LineLimit it begins with "[OUTPUT TRUNCATED: H
\* of T lines hidden", H = total - max_lines, T = total, and only the first
\* max_lines lines and a blank line come before it.
C15_OutputTruncatedNotice ==
    TruncatedWith("TruncateFolder") =>
        LET out   == Split(result.content)
            lines == Split(call.content)
            total == NumLines(call.content)
        IN \E i \in 1..Len(out) :
              /\ StartsWith(out[i], OUTPUT_TRUNCATED)
              /\ constraint.class = "LineLimit" =>
                    /\ StartsWith(out[i],
                          OutputTruncatedNotice(total - constraint.max_lines, total))
                    /\ SubSeq(out, 1, i - 1) =
                          SubSeq(lines, 1, constraint.max_lines) \o <<<<>>>>

\* positions of the line separators among the first n characters of a text
NLWithin(content, n) == {i \in 1..Min(n, Len(content)) : content[i] = NL}

\* the greatest element of a non-empty set of integers
MaxOf(S) == CHOOSE x \in S : \A y \in S : y <= x

\* C16: when TokenBudget.apply truncates a content with the default
\* TruncateFolder and a line separator lies within the first max_chars
\* characters, the text kept before the notice is the content up to the
\* last such separator: the longest prefix of whole lines within max_chars.
C16_CutAtLastNewline ==
    (TruncatedWith("TruncateFolder") /\ constraint.class = "TokenBudget"
        /\ NLWithin(call.content, constraint.max_chars) # {}) =>
        Join(Emitted(result.content)) =
            SubSeq(call.content, 1,
                   MaxOf(NLWithin(call.content, constraint.max_chars)) - 1)

\* the number of lines of the returned content that are not notice lines
\* (HeadTailFolder adds three marker lines, the other folders two)
ShownLines ==
    Len(Split(result.content))
        - (IF constraint.folder.class = "HeadTailFolder" THEN 3 ELSE 2)

\* C17 as stated: whenever apply truncates, the returned content has fewer
\* characters than the input and at most budget_lines lines of it.
C17_AsStated ==
    (call.op = "apply" /\ result.was_truncated) =>
        /\ Len(result.content) < Len(call.content)
        /\ ShownLines <= FoldBudget

\* C17 (amended): whenever apply truncates, the returned content holds at
\* most budget_lines lines of the input, or 2 when a HeadTailFolder gets a
\* budget of 1 (one head line and one tail line); it need not have fewer
\* characters than the input, the notice being added to it.
C17_FoldedLineCount ==
    (call.op = "apply" /\ result.was_truncated) =>
        /\ FoldBudget >= 1
        /\ ShownLines <=
              (IF constraint.folder.class = "HeadTailFolder"
               THEN Max(2, FoldBudget) ELSE FoldBudget)

C17_Witness ==
    /\ call.op = "apply"
    /\ result.was_truncated
    /\ constraint.folder.class = "TruncateFolder"
    /\ FoldBudget = 2
    /\ ShownLines = 2
    /\ NumLines(call.content) = 4
    /\ Len(result.content) > Len(call.content)

\* the characters a text of the model can hold
Chars == UNION {{l[i] : i \in 1..Len(l)} : l \in LineVals} \cup {NL}

IsText(t) == t \in Seq(Chars \cup {"[", "]", ":", ".", "-"} \cup WordChars \cup WS)

\* C19: every apply on a constructed constraint, the empty content included,
\* and every fold on a constructed folder with a budget >= 1 ends with a
\* result (a ConstraintResult with a text and a flag, or a text that is not
\* empty) and never by raising.
C19_Totality ==
    /\ ~raised
    /\ call.op = "apply" =>
          /\ IsText(result.content)
          /\ result.was_truncated \in BOOLEAN
          /\ result.was_truncated \/ result.content = call.content
    /\ (call.op = "fold" /\ call.budget_lines >= 1) =>
          /\ IsText(folded)
          /\ folded # <<>>

\* apply truncated a content with more lines than characters, where the
\* average line length is 0 before its floor of 1
C19_Witness ==
    /\ call.op = "apply"
    /\ constraint.class = "TokenBudget"
    /\ result.was_truncated
    /\ Len(call.content) < NumLines(call.content)
    /\ ~raised

---------------------------------------------------------------------------
(* Concurrent callers: two threads call apply on one shared constraint.    *)
(* A call is entered, reads the budget and takes its branch, folds when    *)
(* over budget, and returns a new ConstraintResult; the steps of the two   *)
(* callers interleave freely.                                              *)

\* the shared instances: every constraint class, every built-in folder
ConcInstances ==
    {LineLimit(1, NoFolder),
     LineLimit(2, HeadTailFolder(<<1, 2>>)),
     TokenBudget(2, StructureFolder(<<>>)),
     TokenBudget(1, HeadTailFolder(<<1, 2>>)),
     Unconstrained}

\* the contents the concurrent callers pass
ConcContents == {c \in Contents : Len(c) <= MaxBudget}

\* variant: apply leaves the size of the content it saw in the budget
SelfAfterApply_stash(self, content) ==
    [self EXCEPT !.max_lines = NumLines(content), !.max_chars = Len(content)]

\* the instance after a step of apply: no apply assigns to self or to
\* self.folder, and no fold assigns to its folder
SelfAfterApply(self, content) == self

\* the addresses of the results the callers still hold
LiveResults == {threads[t].ret.id : t \in {u \in Threads : threads[u].pc = "done"}}

\* ConstraintResult(...) allocates a new object: an address no live result has
NewResult(value) ==
    [id    |-> CHOOSE i \in 1..Cardinality(Threads) :
                  /\ i \notin LiveResults
                  /\ \A j \in 1..(i - 1) : j \in LiveResults,
     value |-> value]

ConcRest == <<folder, err, call, result, folded, fold_calls, raised, heap, bundles,
              EnvVars>>

\* thread t calls c.apply(content)
ConcEnter(t, content) ==
    /\ threads[t].pc = "idle"
    /\ threads' = [threads EXCEPT ![t] =
                      [pc |-> "check", content |-> content, ret |-> NoRet]]
    /\ UNCHANGED constraint
    /\ UNCHANGED ConcRest

\* thread t counts the content and compares with the budget: within budget
\* it returns the passthrough result, over budget it goes on to fold
ConcCheck(t) ==
    /\ threads[t].pc = "check"
    /\ LET content == threads[t].content
       IN /\ threads' = [threads EXCEPT ![t] =
                IF FoldCalls(constraint, content) = <<>>
                THEN [pc |-> "done", content |-> content,
                      ret |-> NewResult(Apply(constraint, content))]
                ELSE [pc |-> "fold", content |-> content, ret |-> NoRet]]
          /\ constraint' = SelfAfterApply(constraint, content)
    /\ UNCHANGED ConcRest

\* thread t folds with self.folder and builds the truncated result
ConcFold(t) ==
    /\ threads[t].pc = "fold"
    /\ LET content == threads[t].content
       IN /\ threads' = [threads EXCEPT ![t] =
                [pc |-> "done", content |-> content,
                 ret |-> NewResult(Apply(constraint, content))]]
          /\ constraint' = SelfAfterApply(constraint, content)
    /\ UNCHANGED ConcRest

\* thread t is done with its result and drops it
ConcReturn(t) ==
    /\ threads[t].pc = "done"
    /\ threads' = [threads EXCEPT ![t] = ThreadIdle]
    /\ UNCHANGED constraint
    /\ UNCHANGED ConcRest

InitConc ==
    /\ NoEnv
    /\ constraint \in ConcInstances
    /\ threads = [t \in Threads |-> ThreadIdle]
    /\ heap = ModuleHeap
    /\ bundles = <<>>
    /\ folder = NoFolder
    /\ err = FALSE
    /\ call = NoCall
    /\ result = NoResult
    /\ folded = <<>>
    /\ fold_calls = <<>>
    /\ raised = FALSE

NextConc ==
    \/ \E t \in Threads, content \in ConcContents : ConcEnter(t, content)
    \/ \E t \in Threads : ConcCheck(t)
    \/ \E t \in Threads : ConcFold(t)
    \/ \E t \in Threads : ConcReturn(t)

SpecConc == InitConc /\ [][NextConc]_vars

\* a folder built anew from a folder's configuration
FreshFolder(f) ==
    CASE f.class = "TruncateFolder"  -> TruncateFolder
      [] f.class = "HeadTailFolder"  -> HeadTailFolder(f.head_ratio)
      [] f.class = "StructureFolder" ->
            StructureFolder(SubSeq(f.patterns, Len(STRUCTURE_PATTERNS) + 1,
                                   Len(f.patterns)))

\* a constraint built anew from a constraint's configuration
FreshInstance(c) ==
    CASE c.class = "LineLimit"     -> LineLimit(c.max_lines, FreshFolder(c.folder))
      [] c.class = "TokenBudget"   -> TokenBudget(c.max_chars, FreshFolder(c.folder))
      [] c.class = "Unconstrained" -> Unconstrained

\* C18: no step of any apply call changes the shared constraint's budget,
\* folder or folder configuration; under every interleaving each call
\* returns what apply returns on a fresh instance of the same configuration
\* called alone; and the results two callers hold are distinct objects.
C18_PureUnderInterleaving ==
    [][/\ constraint' = constraint
       /\ \A t \in Threads :
             threads'[t].pc = "done" =>
                threads'[t].ret.value =
                    Apply(FreshInstance(constraint), threads'[t].content)
       /\ \A t, u \in Threads :
             (t # u /\ threads'[t].pc = "done" /\ threads'[u].pc = "done") =>
                threads'[t].ret.id # threads'[u].ret.id]_vars

\* one caller holds a truncated result while the other is inside fold
C18_Witness ==
    /\ threads["t1"].pc = "fold"
    /\ threads["t2"].pc = "done"
    /\ threads["t2"].ret.value.was_truncated
    /\ threads["t1"].content # threads["t2"].content

---------------------------------------------------------------------------
(* Presets: objects live on a heap, a sequence whose positions are the      *)
(* objects' addresses; an object refers to another by its address.  Each   *)
(* constructor takes the heap and returns it with the new object last; a   *)
(* constructor that is given a folder, and the dict that is given a        *)
(* constraint, refer to the object allocated just before.                  *)

MaxProfileCalls == 2

\* TruncateFolder()
TruncateFolder_new(h) ==
    Append(h, [kind |-> "folder", class |-> "TruncateFolder"])

\* HeadTailFolder(head_ratio)
HeadTailFolder_new(h, r) ==
    Append(h, [kind |-> "folder", class |-> "HeadTailFolder", head_ratio |-> r])

\* variant: self.patterns = _STRUCTURE_PATTERNS, the module's list itself
StructureFolder_new_shared(h) ==
    Append(h, [kind |-> "folder", class |-> "StructureFolder", patterns |-> 1])

\* StructureFolder(): self.patterns = list(_STRUCTURE_PATTERNS), a new list
StructureFolder_new(h) ==
    LET h1 == Append(h, [kind |-> "list", items |-> h[1].items])
    IN Append(h1, [kind |-> "folder", class |-> "StructureFolder",
                   patterns |-> Len(h1)])

\* LineLimit(max_lines, folder=<the object just allocated>)
LineLimit_new(h, max_lines) ==
    Append(h, [kind |-> "constraint", class |-> "LineLimit",
               max_lines |-> max_lines, folder |-> Len(h)])

\* TokenBudget(max_chars, folder=<the object just allocated>)
TokenBudget_new(h, max_chars) ==
    Append(h, [kind |-> "constraint", class |-> "TokenBudget",
               max_chars |-> max_chars, folder |-> Len(h)])

\* Unconstrained()
Unconstrained_new(h) ==
    Append(h, [kind |-> "constraint", class |-> "Unconstrained"])

\* {"constraint": <the object just allocated>, "max_iterations": ...,
\*  "max_output_length": ...}
Bundle(h, max_iterations, max_output_length) ==
    Append(h, [kind |-> "dict", constraint |-> Len(h),
               max_iterations |-> max_iterations,
               max_output_length |-> max_output_length])

ToolProfile_minimal(h) ==
    Bundle(LineLimit_new(StructureFolder_new(h), 50), 100, 2048)

ToolProfile_standard(h) ==
    Bundle(LineLimit_new(TruncateFolder_new(h), 200), 50, 8192)

ToolProfile_power(h) ==
    Bundle(TokenBudget_new(HeadTailFolder_new(h, <<3, 5>>), 16000), 30, 16384)

ToolProfile_unconstrained(h) ==
    Bundle(Unconstrained_new(h), 50, 8192)

ProfRest == <<folder, constraint, err, call, result, folded, fold_calls, raised,
              threads, EnvVars>>

\* a factory returned: the caller keeps the dict, the last object of h
Returned(factory, h) ==
    /\ Len(bundles) < MaxProfileCalls
    /\ heap' = h
    /\ bundles' = Append(bundles, [factory |-> factory, id |-> Len(h)])
    /\ UNCHANGED ProfRest

CallMinimal == Returned("minimal", ToolProfile_minimal(heap))

CallStandard == Returned("standard", ToolProfile_standard(heap))

CallPower == Returned("power", ToolProfile_power(heap))

CallUnconstrained == Returned("unconstrained", ToolProfile_unconstrained(heap))

\* the addresses a bundle leads to
ConstraintOf(h, b) == h[b].constraint

FolderOf(h, b) == h[ConstraintOf(h, b)].folder

\* profile["max_iterations"] = 0
SetItem(i) ==
    /\ heap' = [heap EXCEPT ![bundles[i].id].max_iterations = 0]
    /\ UNCHANGED bundles
    /\ UNCHANGED ProfRest

\* profile["constraint"].max_lines = 1, or .max_chars = 1
SetBudget(i) ==
    LET c == ConstraintOf(heap, bundles[i].id)
    IN /\ heap[c].class # "Unconstrained"
       /\ heap' = IF heap[c].class = "LineLimit"
                  THEN [heap EXCEPT ![c].max_lines = 1]
                  ELSE [heap EXCEPT ![c].max_chars = 1]
       /\ UNCHANGED bundles
       /\ UNCHANGED ProfRest

\* profile["constraint"].folder.head_ratio = 0.5
SetHeadRatio(i) ==
    /\ heap[ConstraintOf(heap, bundles[i].id)].class # "Unconstrained"
    /\ LET f == FolderOf(heap, bundles[i].id)
       IN /\ heap[f].class = "HeadTailFolder"
          /\ heap' = [heap EXCEPT ![f].head_ratio = <<1, 2>>]
    /\ UNCHANGED bundles
    /\ UNCHANGED ProfRest

\* profile["constraint"].folder.patterns.append(re.compile(r"^a")), once
AppendPattern(i) ==
    /\ heap[ConstraintOf(heap, bundles[i].id)].class # "Unconstrained"
    /\ LET f == FolderOf(heap, bundles[i].id)
       IN /\ heap[f].class = "StructureFolder"
          /\ Len(heap[heap[f].patterns].items) = Len(STRUCTURE_PATTERNS)
          /\ heap' = [heap EXCEPT ![heap[f].patterns].items =
                                       Append(@, Literal(<<"a">>))]
    /\ UNCHANGED bundles
    /\ UNCHANGED ProfRest

NextProfiles ==
    \/ CallMinimal
    \/ CallStandard
    \/ CallPower
    \/ CallUnconstrained
    \/ \E i \in 1..Len(bundles) : SetItem(i)
    \/ \E i \in 1..Len(bundles) : SetBudget(i)
    \/ \E i \in 1..Len(bundles) : SetHeadRatio(i)
    \/ \E i \in 1..Len(bundles) : AppendPattern(i)

SpecProfiles == Init /\ [][NextProfiles]_vars

\* what a bundle's holder can observe: the dict with its constraint, the
\* constraint's folder and the folder's pattern list in place of addresses
DeepFolder(h, f) ==
    IF h[f].class = "StructureFolder"
    THEN [h[f] EXCEPT !.patterns = h[h[f].patterns].items]
    ELSE h[f]

DeepConstraint(h, c) ==
    IF h[c].class = "Unconstrained"
    THEN h[c]
    ELSE [h[c] EXCEPT !.folder = DeepFolder(h, h[c].folder)]

Deep(h, b) == [h[b] EXCEPT !.constraint = DeepConstraint(h, h[b].constraint)]

\* C20: any two bundles returned by the same factory are distinct dicts,
\* their constraints are distinct objects and so are their folders (the
\* unconstrained preset has no folder), and no step that changes what one
\* of them holds changes what the other holds.
C20_PresetIndependence ==
    [][\A i, j \in 1..Len(bundles') :
         (i < j /\ bundles'[i].factory = bundles'[j].factory) =>
            LET a == bundles'[i].id
                b == bundles'[j].id
            IN /\ a # b
               /\ ConstraintOf(heap', a) # ConstraintOf(heap', b)
               /\ heap'[ConstraintOf(heap', a)].class # "Unconstrained" =>
                     FolderOf(heap', a) # FolderOf(heap', b)
               /\ j <= Len(bundles) =>
                     \/ Deep(heap', a) = Deep(heap, a)
                     \/ Deep(heap', b) = Deep(heap, b)]_vars

\* two minimal bundles, the first one's pattern list extended, the second
\* one's not
C20_Witness ==
    /\ Len(bundles) = 2
    /\ bundles[1].factory = "minimal"
    /\ bundles[2].factory = "minimal"
    /\ Len(DeepFolder(heap, FolderOf(heap, bundles[1].id)).patterns)
          = Len(STRUCTURE_PATTERNS) + 1
    /\ DeepFolder(heap, FolderOf(heap, bundles[2].id)).patterns
          = STRUCTURE_PATTERNS

---------------------------------------------------------------------------
(* Reprs *)

\* type(self).__name__ as text
ClassName(cls) ==
    CASE cls = "LineLimit"       -> <<"L", "i", "n", "e", "L", "i", "m", "i", "t">>
      [] cls = "TokenBudget"     -> <<"T", "o", "k", "e", "n", "B", "u", "d", "g", "e", "t">>
      [] cls = "Unconstrained"   -> <<"U", "n", "c", "o", "n", "s", "t", "r", "a", "i", "n", "e", "d">>
      [] cls = "TruncateFolder"  -> <<"T", "r", "u", "n", "c", "a", "t", "e", "F", "o", "l", "d", "e", "r">>
      [] cls = "HeadTailFolder"  -> <<"H", "e", "a", "d", "T", "a", "i", "l", "F", "o", "l", "d", "e", "r">>
      [] cls = "StructureFolder" -> <<"S", "t", "r", "u", "c", "t", "u", "r", "e", "F", "o", "l", "d", "e", "r">>

MAX_LINES_EQ ==
    <<"(", "m", "a", "x", "_", "l", "i", "n", "e", "s", "=">>

MAX_CHARS_EQ ==
    <<"(", "m", "a", "x", "_", "c", "h", "a", "r", "s", "=">>

FOLDER_EQ ==
    <<",", " ", "f", "o", "l", "d", "e", "r", "=">>

HEAD_RATIO_EQ ==
    <<"(", "h", "e", "a", "d", "_", "r", "a", "t", "i", "o", "=">>

\* str(x) of a float 0 < x < 1 that is a whole number of tenths: "0.d"
TenthStr(r) == <<"0", ".">> \o NatStr((r[1] * 10) \div r[2])

PATTERNS_EQ ==
    <<"(", "p", "a", "t", "t", "e", "r", "n", "s", "=">>

\* ContextFolder.__repr__ (TruncateFolder inherits it), HeadTailFolder.__repr__
\* and StructureFolder.__repr__
Folder_repr(f) ==
    CASE f.class = "TruncateFolder" ->
            ClassName(f.class) \o <<"(", ")">>
      [] f.class = "HeadTailFolder" ->
            ClassName(f.class) \o HEAD_RATIO_EQ \o TenthStr(f.head_ratio) \o <<")">>
      [] f.class = "StructureFolder" ->
            ClassName(f.class) \o PATTERNS_EQ \o IntStr(Len(f.patterns)) \o <<")">>

\* repr(c): LineLimit.__repr__, TokenBudget.__repr__, and the inherited
\* ObservationConstraint.__repr__ for Unconstrained
Constraint_repr(c) ==
    CASE c.class = "LineLimit" ->
            ClassName(c.class) \o MAX_LINES_EQ \o IntStr(c.max_lines)
                \o FOLDER_EQ \o Folder_repr(c.folder) \o <<")">>
      [] c.class = "TokenBudget" ->
            ClassName(c.class) \o MAX_CHARS_EQ \o IntStr(c.max_chars)
                \o FOLDER_EQ \o Folder_repr(c.folder) \o <<")">>
      [] c.class = "Unconstrained" ->
            ClassName(c.class) \o <<"(", ")">>

---------------------------------------------------------------------------
(* NavigationEnv: the environment holds one constraint; setup_state starts *)
(* a rollout, env_response passes the parent chain's messages through the  *)
(* constraint and counts, and the rubric's metrics read the counters.      *)

MaxMessages == 3

\* state.get(key, default), metadata.get(key, default)
Get(d, key, default) == IF key \in DOMAIN d THEN d[key] ELSE default

\* a message's content: a string, or something that is not one (None, a list)
Str(text) == [is_str |-> TRUE, text |-> text]

NotStr == [is_str |-> FALSE, text |-> <<>>]

\* constraint arguments of NavigationEnv(...): None and one of each kind
EnvConstraintArgs ==
    {NoConstraint,
     Unconstrained,
     LineLimit(1, NoFolder),
     LineLimit(2, HeadTailFolder(<<1, 2>>)),
     TokenBudget(2, NoFolder),
     TokenBudget(4, StructureFolder(<<>>))}

\* self.constraint = constraint or Unconstrained()
NavigationEnv_constraint(arg) == IF arg = NoConstraint THEN Unconstrained ELSE arg

\* tool outputs of one, two and three lines
EnvContents ==
    {Join(<<<<"a">>>>),
     Join(<<<<"a">>, <<"a">>>>),
     Join(<<<<"#", " ", "a">>, <<>>, <<"a">>>>)}

\* the messages the parent chain returns
EnvMessages ==
    {[role |-> "tool", content |-> Str(c)] : c \in EnvContents}
        \cup {[role |-> "tool", content |-> NotStr],
              [role |-> "assistant", content |-> Str(<<"a">>)]}

EnvMessageLists == UNION {[1..n -> EnvMessages] : n \in 0..2}

\* the four counters
NavCounters ==
    {"nav_truncations", "nav_lines_hidden", "nav_chars_hidden",
     "nav_total_tool_outputs"}

\* variant: the truncation counters are updated for every result
Counted_always(st, res) ==
    [k \in (DOMAIN st) \cup NavCounters |->
        CASE k = "nav_total_tool_outputs" -> Get(st, k, 0) + 1
          [] k = "nav_truncations" -> Get(st, k, 0) + 1
          [] k = "nav_lines_hidden" ->
                Get(st, k, 0) + Get(res.metadata, "lines_hidden", 0)
          [] k = "nav_chars_hidden" ->
                Get(st, k, 0) + Get(res.metadata, "chars_hidden", 0)
          [] OTHER -> st[k]]

\* step 3 of env_response: the state after one result is counted; the
\* three truncation counters are assigned only when the result was truncated
Counted(st, res) ==
    [k \in (DOMAIN st) \cup {"nav_total_tool_outputs"}
             \cup (IF res.was_truncated THEN NavCounters ELSE {}) |->
        CASE k = "nav_total_tool_outputs" -> Get(st, k, 0) + 1
          [] k = "nav_truncations" /\ res.was_truncated -> Get(st, k, 0) + 1
          [] k = "nav_lines_hidden" /\ res.was_truncated ->
                Get(st, k, 0) + Get(res.metadata, "lines_hidden", 0)
          [] k = "nav_chars_hidden" /\ res.was_truncated ->
                Get(st, k, 0) + Get(res.metadata, "chars_hidden", 0)
          [] OTHER -> st[k]]

\* variant: the role is not looked at
Skipped_anyrole(msg) == ~msg.content.is_str

\* the loop body's two `continue` tests: not a tool message, or a content
\* that is not a string
Skipped(msg) == msg.role # "tool" \/ ~msg.content.is_str

\* the message after the loop body: msg["content"] = result.content
EnvMsg(self, msg) ==
    IF Skipped(msg)
    THEN msg
    ELSE [msg EXCEPT !.content = Str(Apply(self, msg.content.text).content)]

\* the state after the loop body
EnvState(self, msg, st) ==
    IF Skipped(msg)
    THEN st
    ELSE Counted(st, Apply(self, msg.content.text))

\* the state after the loop: for msg in tool_messages
RECURSIVE EnvLoop(_, _, _)
EnvLoop(self, msgs, st) ==
    IF msgs = <<>>
    THEN st
    ELSE EnvLoop(self, Tail(msgs), EnvState(self, Head(msgs), st))

\* variant: no guard against a total of zero
nav_truncation_rate_noguard(st) ==
    <<Get(st, "nav_truncations", 0), Get(st, "nav_total_tool_outputs", 0)>>

\* NavigationMonitorRubric.nav_truncation_rate, the float as a fraction
\* <<numerator, denominator>>, 0.0 as <<0, 1>>
nav_truncation_rate(st) ==
    LET total == Get(st, "nav_total_tool_outputs", 0)
    IN IF total = 0 THEN <<0, 1>> ELSE <<Get(st, "nav_truncations", 0), total>>

EnvRest == <<folder, err, call, result, folded, fold_calls, raised, threads, heap,
             bundles>>

\* state = await env.setup_state(state): a rollout begins
SetupState ==
    /\ state' = [k \in (DOMAIN state) \cup NavCounters \cup {"nav_constraint_type"} |->
                    CASE k \in NavCounters -> 0
                      [] k = "nav_constraint_type" -> constraint.class
                      [] OTHER -> state[k]]
    /\ logged' = Constraint_repr(constraint)
    /\ seen' = <<>>
    /\ tool_messages' = <<>>
    /\ metric' = NoMetric
    /\ UNCHANGED constraint
    /\ UNCHANGED EnvRest

\* await env.env_response(messages, state), the parent chain returning msgs
EnvResponse(msgs) ==
    /\ Len(seen) + Len(msgs) <= MaxMessages
    /\ tool_messages' = [i \in 1..Len(msgs) |-> EnvMsg(constraint, msgs[i])]
    /\ state' = EnvLoop(constraint, msgs, state)
    /\ seen' = seen \o msgs
    /\ metric' = NoMetric
    /\ UNCHANGED <<constraint, logged>>
    /\ UNCHANGED EnvRest

\* await rubric.nav_truncation_rate(state)
NavTruncationRate ==
    /\ ~metric.scored
    /\ metric' = [scored |-> TRUE, value |-> nav_truncation_rate(state)]
    /\ UNCHANGED <<constraint, state, seen, tool_messages, logged>>
    /\ UNCHANGED EnvRest

\* env = NavigationEnv(constraint=arg, ...)
InitEnv ==
    /\ \E arg \in EnvConstraintArgs :
          /\ constraint = NavigationEnv_constraint(arg)
          /\ logged = Constraint_repr(NavigationEnv_constraint(arg))
    /\ state = EmptyDict
    /\ seen = <<>>
    /\ tool_messages = <<>>
    /\ metric = NoMetric
    /\ threads = [t \in Threads |-> ThreadIdle]
    /\ heap = ModuleHeap
    /\ bundles = <<>>
    /\ folder = NoFolder
    /\ err = FALSE
    /\ call = NoCall
    /\ result = NoResult
    /\ folded = <<>>
    /\ fold_calls = <<>>
    /\ raised = FALSE

NextEnv ==
    \/ SetupState
    \/ \E msgs \in EnvMessageLists : EnvResponse(msgs)
    \/ NavTruncationRate

SpecEnv == InitEnv /\ [][NextEnv]_vars

RECURSIVE SumSeq(_)
SumSeq(xs) == IF xs = <<>> THEN 0 ELSE Head(xs) + SumSeq(Tail(xs))

\* setup_state has run on the rollout state
SetUp == "nav_constraint_type" \in DOMAIN state

\* the results of the tool messages with string content seen in the rollout
ResultsSoFar ==
    LET processed == SelectSeq(seen, LAMBDA m : m.role = "tool" /\ m.content.is_str)
    IN [i \in 1..Len(processed) |-> Apply(constraint, processed[i].content.text)]

\* C21: after setup_state and any sequence of env_response calls,
\* nav_total_tool_outputs is the number of tool messages with string content
\* processed, nav_truncations the number of their truncated results, and
\* nav_lines_hidden / nav_chars_hidden the sums of those results'
\* lines_hidden / chars_hidden metadata, an absent key counting 0: so
\* nav_chars_hidden is 0 under LineLimit and nav_lines_hidden 0 under
\* TokenBudget.
C21_TelemetryAccumulation ==
    SetUp =>
        LET truncated == SelectSeq(ResultsSoFar, LAMBDA r : r.was_truncated)
            hidden(key) ==
                SumSeq([i \in 1..Len(truncated) |-> Get(truncated[i].metadata, key, 0)])
        IN /\ state["nav_total_tool_outputs"] = Len(ResultsSoFar)
           /\ state["nav_truncations"] = Len(truncated)
           /\ state["nav_lines_hidden"] = hidden("lines_hidden")
           /\ state["nav_chars_hidden"] = hidden("chars_hidden")
           /\ constraint.class = "LineLimit" => state["nav_chars_hidden"] = 0
           /\ constraint.class = "TokenBudget" => state["nav_lines_hidden"] = 0

\* three outputs counted under a LineLimit, two of them truncated
C21_Witness ==
    /\ SetUp
    /\ constraint.class = "LineLimit"
    /\ state["nav_total_tool_outputs"] = 3
    /\ state["nav_truncations"] = 2
    /\ state["nav_lines_hidden"] >= 2

\* C22: nav_truncation_rate is 0.0 when nav_total_tool_outputs is 0 or
\* missing and nav_truncations / nav_total_tool_outputs otherwise; in every
\* state nav_truncations <= nav_total_tool_outputs, so the rate is a
\* fraction between 0 and 1.
C22_TruncationRate ==
    LET total == Get(state, "nav_total_tool_outputs", 0)
        truncations == Get(state, "nav_truncations", 0)
    IN /\ 0 <= truncations
       /\ truncations <= total
       /\ metric.scored =>
             /\ total = 0 => metric.value = <<0, 1>>
             /\ total # 0 => metric.value = <<truncations, total>>
             /\ metric.value[2] > 0
             /\ 0 <= metric.value[1]
             /\ metric.value[1] <= metric.value[2]

\* the rate was computed on a state with one truncation in two outputs
C22_Witness ==
    /\ metric.scored
    /\ metric.value = <<1, 2>>
    /\ state["nav_total_tool_outputs"] = 2

\* "LineLimit(max_lines=n)", "TokenBudget(max_chars=n)", "Unconstrained()"
BudgetOnlyRepr(c) ==
    CASE c.class = "LineLimit" ->
            ClassName(c.class) \o MAX_LINES_EQ \o IntStr(c.max_lines) \o <<")">>
      [] c.class = "TokenBudget" ->
            ClassName(c.class) \o MAX_CHARS_EQ \o IntStr(c.max_chars) \o <<")">>
      [] c.class = "Unconstrained" ->
            ClassName(c.class) \o <<"(", ")">>

\* C23: the repr of a constraint built with only a budget (its folder the
\* default TruncateFolder) names only the budget: "LineLimit(max_lines=n)",
\* "TokenBudget(max_chars=n)"; and repr(Unconstrained()) is "Unconstrained()".
C23_ReprNamesBudget ==
    (constraint.class = "Unconstrained" \/ constraint.folder = DefaultFolder(NoFolder)) =>
        logged = BudgetOnlyRepr(constraint)

\* C24: env_response returns a message whose role is not "tool" or whose
\* content is not a string as it came, and a call that gets only such
\* messages leaves the rollout state as it was; a tool message with string
\* content comes back with constraint.apply(content).content as its content,
\* and nav_total_tool_outputs grows by the number of those messages.
C24_EnvResponseFrame ==
    [][Len(seen') > Len(seen) =>
         LET given   == SubSeq(seen', Len(seen) + 1, Len(seen'))
             counted == {i \in 1..Len(given) :
                            given[i].role = "tool" /\ given[i].content.is_str}
         IN /\ Len(tool_messages') = Len(given)
            /\ \A i \in 1..Len(given) :
                  IF i \in counted
                  THEN /\ tool_messages'[i].role = "tool"
                       /\ tool_messages'[i].content =
                             Str(Apply(constraint, given[i].content.text).content)
                  ELSE tool_messages'[i] = given[i]
            /\ counted = {} => state' = state
            /\ Get(state', "nav_total_tool_outputs", 0) =
                  Get(state, "nav_total_tool_outputs", 0) + Cardinality(counted)]_vars

\* one call returned an assistant message as it came and folded a tool output
C24_Witness ==
    /\ Len(tool_messages) = 2
    /\ tool_messages[1].role = "assistant"
    /\ tool_messages[1] = seen[Len(seen) - 1]
    /\ tool_messages[2].role = "tool"
    /\ tool_messages[2].content.is_str
    /\ tool_messages[2] # seen[Len(seen)]
    /\ Get(state, "nav_total_tool_outputs", 0) = 1

\* C25: when no line of the content matches a pattern of the StructureFolder,
\* StructureFolder.fold(content, N) emits the content lines that
\* TruncateFolder.fold(content, N) emits, the first N lines in their order.
C25_StructureDegenerates ==
    (Folded("StructureFolder")
        /\ StructLines(folder.patterns, call.content) = <<>>) =>
        /\ Emitted(folded) =
              Emitted(TruncateFolder_fold(call.content, call.budget_lines))
        /\ Emitted(folded) = FirstK(Split(call.content), call.budget_lines)

\* four lines, none structural, not all alike, folded to the first two
C25_Witness ==
    /\ Folded("StructureFolder")
    /\ StructLines(folder.patterns, call.content) = <<>>
    /\ NumLines(call.content) = 4
    /\ call.budget_lines = 2
    /\ Emitted(folded) # LastK(Split(call.content), 2)

\* the number of notice lines a folder adds
NoticeLines(cls) == IF cls = "HeadTailFolder" THEN 3 ELSE 2

\* C26 as stated: whenever LineLimit.apply truncates, the returned content
\* holds exactly max_lines lines of the input, the number reported as
\* lines_shown, plus the folder's 2 notice lines, or 3 for HeadTailFolder
\* with head_n + tail_n = max_lines.
C26_AsStated ==
    (TruncatedWith(constraint.folder.class) /\ constraint.class = "LineLimit") =>
        /\ result.metadata.lines_shown = constraint.max_lines
        /\ ShownLines = constraint.max_lines
        /\ Len(Split(result.content)) =
              constraint.max_lines + NoticeLines(constraint.folder.class)
        /\ constraint.folder.class = "HeadTailFolder" =>
              HeadN(constraint.folder.head_ratio, constraint.max_lines)
                  + TailN(constraint.folder.head_ratio, constraint.max_lines)
                  = constraint.max_lines

\* C26 (amended): whenever LineLimit.apply truncates, lines_shown is
\* max_lines; with TruncateFolder or StructureFolder, and with HeadTailFolder
\* when max_lines >= 2, the content holds exactly max_lines lines of the
\* input plus the 2 (HeadTailFolder: 3) notice lines; HeadTailFolder with
\* max_lines = 1 shows one head and one tail line, 2 lines.
C26_LinesShown ==
    (TruncatedWith(constraint.folder.class) /\ constraint.class = "LineLimit") =>
        LET headtail == constraint.folder.class = "HeadTailFolder"
            shown    == IF headtail /\ constraint.max_lines = 1
                        THEN 2 ELSE constraint.max_lines
        IN /\ result.metadata.lines_shown = constraint.max_lines
           /\ ShownLines = shown
           /\ Len(Split(result.content)) = shown + NoticeLines(constraint.folder.class)
           /\ headtail =>
                 HeadN(constraint.folder.head_ratio, constraint.max_lines)
                     + TailN(constraint.folder.head_ratio, constraint.max_lines)
                     = shown

\* a HeadTailFolder under LineLimit(3): head and tail add up to the 3 shown
C26_Witness ==
    /\ TruncatedWith("HeadTailFolder")
    /\ constraint.class = "LineLimit"
    /\ constraint.max_lines = 3
    /\ ShownLines = 3
    /\ result.metadata.lines_shown = 3
    /\ NumLines(call.content) = 4

\* C27: whenever TokenBudget.apply truncates, the line budget it hands to
\* the folder is smaller than the content's number of lines; with
\* TruncateFolder fewer lines than the content has are returned and the
\* notice prints a hidden count >= 1.
C27_TruncationHides ==
    (TruncatedWith(constraint.folder.class) /\ constraint.class = "TokenBudget") =>
        LET total == NumLines(call.content)
            out   == Split(result.content)
        IN /\ FoldBudget < total
           /\ constraint.folder.class = "TruncateFolder" =>
                 /\ ShownLines < total
                 /\ \E h \in 1..total : out[Len(out)] = TruncateNotice(h, total)

=============================================================================
